---- MODULE Spec2Model ----
(***************************************************************************)
(* HSA Shield: the expense data hook (src/hooks/use-expenses.ts), the auth *)
(* wrapper (src/contexts/AuthContext.tsx), the dashboard reduction and the *)
(* AI population of the expense form (src/components/ExpenseForm.tsx).     *)
(***************************************************************************)
EXTENDS Integers, Sequences, FiniteSets, TLC

(***************************************************************************)
(* Bounds of the model.                                                    *)
(***************************************************************************)
\* documents addDoc may create in one run (document ids 1..MaxDocs)
MaxDocs == 2
\* storage objects uploadBytes may create in one run (uuid-named, 1..MaxUploads)
MaxUploads == 2
\* signInWithPopup / signInWithRedirect calls that may be pending at once
MaxAttempts == 2
\* clock steps in one run
MaxTicks == 2
\* longest expense list getDashboardSummary is applied to
MaxListLen == 3

(***************************************************************************)
(* Values.                                                                 *)
(***************************************************************************)
\* JavaScript null for a User (useState<User | null>(null))
Null == "null"
Users == {"u1", "u2"}
\* null / undefined image URL (receiptImageUrl || null, data.receiptImageUri || undefined)
NoUrl == 0
\* dateOfPayment: null (explicitly cleared) and undefined (absent)
NullDate == 0
UndefinedDate == -1
\* calendar days a form can carry
Dates == {1, 2}
\* isReimbursedInput?: boolean
ReimbursedInputs == {"true", "false", "undefined"}
\* 10 * 60 * 1000: the age in ms past which a stored sign-in flag is stale
SignInTimeoutMs == 600000
\* screen.width <= 768
SmallScreenWidth == 768
\* localStorage.getItem('hsaShield_signInTimestamp') === null
NoTimestamp == -1
\* a stored timestamp that parseInt turns into NaN
BadTimestamp == -2
\* one clock step, and Date.now() when the provider mounts
TickMs == SignInTimeoutMs \div 2
LoadTime == 3 * TickMs
\* timestamps a previous page may have stored: 15, 10, 5 and 0 minutes old
StoredTimestamps == {NoTimestamp, BadTimestamp, 0, TickMs, 2 * TickMs, LoadTime}
\* what getDeviceDetails() can report
Devices == [isMobileUA : BOOLEAN, isTouchDevice : BOOLEAN,
            screenWidth : {SmallScreenWidth, SmallScreenWidth + 1}]
\* error.code of a rejected signInWithPopup
PopupErrors == {"auth/popup-closed-by-user", "auth/cancelled-popup-request",
                "auth/popup-blocked", "auth/unauthorized-domain",
                "auth/network-request-failed"}

VARIABLES
  \* ---- AuthContext.tsx
  currentUser,   \* useState<User | null>(null)
  loading,       \* useState(true)
  isSigningIn,   \* useState(() => ...)
  authUser,      \* the SDK's auth.currentUser
  lsSigningIn,   \* localStorage hsaShield_signingIn: "true" or "absent"
  lsTimestamp,   \* localStorage hsaShield_signInTimestamp in ms, NoTimestamp if absent
  now,           \* Date.now() in ms
  ticks,         \* clock steps taken in this run
  redirectResultChecked,  \* useRef(false)
  hrr,           \* handleRedirectResult: "notRun", "waiting" (awaiting), "done"
  mountSigningIn,\* isSigningIn as the mount effect's closure captured it
  stored,        \* the two localStorage keys as the mounting page found them
  mountLs,       \* the two localStorage keys once the provider had mounted
  device,        \* what getDeviceDetails() reads from the browser
  provider,      \* which AuthProvider of AuthContext.tsx is mounted
  popupPending,  \* signInWithPopup promises not yet settled
  redirectPending, \* signInWithRedirect promises not yet settled
  navigated,     \* the redirect left the page
  delivered,     \* the auth-state callback ran at least once
  lastDelivered, \* the user the auth-state callback was last called with
  \* ---- app/(app)/layout.tsx
  rendered,      \* what AppLayout's last render shows in place of the page
  \* ---- use-expenses.ts
  expenses,      \* useState<Expense[]>: the list the hook exposes
  isLoading,     \* useState(true)
  subscribed,    \* uid the live onSnapshot query is scoped to, Null when none
  db,            \* Firestore collection 'expenses': id -> document
  storage,       \* Firebase Storage: the set of stored object URLs
  nextDoc,       \* documents created so far (addDoc names a fresh id)
  nextUrl,       \* objects uploaded so far (uuidv4 names a fresh object)
  job,           \* the pending addExpense / updateExpense / deleteExpense call
  summary,       \* what getDashboardSummary() last returned
  \* ---- ExpenseForm.tsx
  editing,       \* initialData was passed (the edit page)
  formValues,    \* the values react-hook-form holds
  dirtyFields,   \* formState.dirtyFields
  renderedDirty, \* dirtyFields as the render that started the upload read it
  isExtractingReceipt,  \* useState(false)
  isExtractingBill,     \* useState(false)
  \* ---- shared
  toast          \* title of the toast the last step showed, "none" if none

\* AuthContext.tsx state other than currentUser
authVars == <<loading, isSigningIn, authUser, lsSigningIn, lsTimestamp, now, ticks,
              redirectResultChecked, hrr, mountSigningIn, stored, mountLs,
              device, provider, popupPending, redirectPending, navigated, delivered, lastDelivered>>

\* use-expenses.ts state
hookVars == <<expenses, isLoading, subscribed, db, storage, nextDoc, nextUrl, job>>

\* ExpenseForm.tsx state
formVars == <<editing, formValues, dirtyFields, renderedDirty,
              isExtractingReceipt, isExtractingBill>>

vars == <<currentUser, authVars, hookVars, summary, formVars, rendered, toast>>

\* what a step of the expense hook leaves alone
outsideHook == <<authVars, summary, formVars, rendered>>

\* what a step of the auth wrapper leaves alone
outsideAuth == <<db, storage, nextDoc, nextUrl, job, summary, formVars>>

\* what a step of the expense form leaves alone
outsideForm == <<currentUser, authVars, hookVars, summary, rendered>>

(***************************************************************************)
(* use-expenses.ts: the list and its subscription                          *)
(***************************************************************************)
\* isReimbursedInput ?? fallback
Coalesce(input, fallback) ==
  IF input = "undefined" THEN fallback ELSE (input = "true")

NoJob ==
  [op |-> "none", pc |-> "idle", uid |-> Null, id |-> 0,
   data |-> [date |-> 1, provider |-> "clinic", patient |-> "ann", cost |-> 10,
             dateOfPayment |-> UndefinedDate, isReimbursedInput |-> "undefined",
             receiptImageFile |-> FALSE, billImageFile |-> FALSE,
             receiptImageUri |-> NoUrl, billImageUri |-> NoUrl],
   receiptUrl |-> NoUrl, billUrl |-> NoUrl,
   found |-> FALSE, curReceipt |-> NoUrl, curBill |-> NoUrl,
   curReimbursed |-> FALSE, pending |-> NoUrl]

\* a document precedes another in orderBy('date','desc'), orderBy('createdAt','desc')
Precedes(a, b) ==
  \/ a.date > b.date
  \/ a.date = b.date /\ a.createdAt > b.createdAt

\* docSnap -> Expense (the userId is kept to state what the list holds: the
\* code drops it, "userId is implicitly handled by the query")
ToExpense(id) ==
  [id |-> id,
   date |-> db[id].date,
   dateOfPayment |-> IF db[id].dateOfPayment # NullDate
                       THEN db[id].dateOfPayment ELSE UndefinedDate,
   provider |-> db[id].provider,
   patient |-> db[id].patient,
   cost |-> db[id].cost,
   isReimbursed |-> db[id].isReimbursed,
   receiptImageUri |-> db[id].receiptImageUri,
   billImageUri |-> db[id].billImageUri,
   userId |-> db[id].userId]

RECURSIVE Ordered(_)
\* the documents ids, mapped to Expense, in query order
Ordered(ids) ==
  IF ids = {} THEN <<>>
  ELSE LET first == CHOOSE i \in ids :
                      \A j \in ids \ {i} : Precedes(db[i], db[j])
       IN <<ToExpense(first)>> \o Ordered(ids \ {first})

\* query(where('userId','==',uid), orderBy('date','desc'), orderBy('createdAt','desc'))
QueryResult(uid) ==
  Ordered({i \in DOMAIN db : db[i].userId = uid})

\* expenses.find(exp => exp.id === id)
Found(id) == \E i \in 1..Len(expenses) : expenses[i].id = id
Find(id) == expenses[CHOOSE i \in 1..Len(expenses) : expenses[i].id = id]

\* the effect of useEffect(..., [currentUser]) when currentUser becomes user
SubscriptionEffect(user) ==
  IF user = Null
    THEN /\ expenses' = <<>>
         /\ isLoading' = FALSE
         /\ subscribed' = Null
    ELSE /\ isLoading' = TRUE
         /\ subscribed' = user
         /\ UNCHANGED expenses

(***************************************************************************)
(* app/(app)/layout.tsx                                                    *)
(***************************************************************************)
\* faulty variant: the layout shows the page to everyone
AppLayoutOpen(load, user) == "children"

\* what AppLayout returns in place of the page for useAuth()'s loading and
\* currentUser
AppLayout(load, user) ==
  IF load THEN "spinner"
  ELSE IF user # Null THEN "children"
  ELSE "prompt"

(***************************************************************************)
(* AuthContext.tsx                                                         *)
(***************************************************************************)
\* the hook's effect as a step that sets currentUser to user triggers it
CurrentUserEffect(user) ==
  IF user # currentUser
    THEN SubscriptionEffect(user)
    ELSE UNCHANGED <<expenses, isLoading, subscribed>>

\* isSmallScreen: screen.width <= 768
isSmallScreen(d) == d.screenWidth <= SmallScreenWidth

\* faulty variant: only the user agent decides
mobileUAOnly(d) == d.isMobileUA

\* const mobile = isMobileUA || (isTouchDevice && isSmallScreen)
mobile(d) == d.isMobileUA \/ (d.isTouchDevice /\ isSmallScreen(d))

\* faulty variant: a flag stored exactly 10 minutes ago still counts as fresh
InitialIsSigningInInclusive(flag, timestamp, time) ==
  /\ flag = "true"
  /\ timestamp # NoTimestamp
  /\ timestamp # BadTimestamp
  /\ time - timestamp <= SignInTimeoutMs

\* the useState initializer of isSigningIn over what localStorage holds
InitialIsSigningIn(flag, timestamp, time) ==
  /\ flag = "true"
  /\ timestamp # NoTimestamp
  /\ timestamp # BadTimestamp
  /\ time - timestamp < SignInTimeoutMs

\* localStorage.removeItem of both keys
RemoveFlags ==
  /\ lsSigningIn' = "absent"
  /\ lsTimestamp' = NoTimestamp

\* faulty variant: the callback clears loading only when a user is delivered
OnAuthStateChangedUserOnly(user) ==
  /\ authUser' = user
  /\ currentUser' = user
  /\ loading' = IF user # Null THEN FALSE ELSE loading
  /\ delivered' = TRUE
  /\ lastDelivered' = user
  /\ IF user # Null
       THEN /\ isSigningIn' = FALSE
            /\ IF provider = "redirect"
                 THEN RemoveFlags
                 ELSE UNCHANGED <<lsSigningIn, lsTimestamp>>
       ELSE UNCHANGED <<isSigningIn, lsSigningIn, lsTimestamp>>
  /\ CurrentUserEffect(user)
  /\ rendered' = AppLayout(loading', user)

\* the callback registered with onAuthStateChanged, called with user (the SDK
\* sets auth.currentUser and notifies within one task)
OnAuthStateChanged(user) ==
  /\ authUser' = user
  /\ currentUser' = user
  /\ loading' = FALSE
  /\ delivered' = TRUE
  /\ lastDelivered' = user
  /\ IF user # Null
       THEN /\ isSigningIn' = FALSE
            /\ IF provider = "redirect"
                 THEN RemoveFlags
                 ELSE UNCHANGED <<lsSigningIn, lsTimestamp>>
       ELSE UNCHANGED <<isSigningIn, lsSigningIn, lsTimestamp>>
  /\ CurrentUserEffect(user)
  /\ rendered' = AppLayout(loading', user)

\* the SDK reports an auth state: the first report after mount, or a change
\* made elsewhere (restored session, another tab, expired session)
AuthStateChanges(user) ==
  /\ ~navigated
  /\ ~delivered \/ user # authUser
  /\ OnAuthStateChanged(user)
  /\ toast' = "none"
  /\ UNCHANGED <<now, ticks, redirectResultChecked, hrr, mountSigningIn, stored, mountLs, device,
                 provider, popupPending, redirectPending, navigated>>
  /\ UNCHANGED outsideAuth

\* handleRedirectResult up to its first await
HandleRedirectResult ==
  /\ ~navigated
  /\ provider = "redirect"
  /\ hrr = "notRun"
  /\ IF redirectResultChecked
       THEN /\ hrr' = "done"
            /\ UNCHANGED <<isSigningIn, lsSigningIn, lsTimestamp,
                           redirectResultChecked>>
       ELSE IF lsSigningIn = "true"
         THEN IF lsTimestamp # NoTimestamp /\ now - lsTimestamp > SignInTimeoutMs
                THEN /\ RemoveFlags
                     /\ isSigningIn' = FALSE
                     /\ redirectResultChecked' = TRUE
                     /\ hrr' = "done"
                ELSE /\ hrr' = "waiting"
                     /\ UNCHANGED <<isSigningIn, lsSigningIn, lsTimestamp,
                                    redirectResultChecked>>
         ELSE /\ isSigningIn' = FALSE
              /\ RemoveFlags
              /\ redirectResultChecked' = TRUE
              /\ hrr' = "done"
  /\ toast' = "none"
  /\ UNCHANGED <<currentUser, loading, authUser, now, ticks, mountSigningIn, stored, mountLs,
                 device, provider, popupPending, redirectPending, navigated,
                 delivered, lastDelivered>>
  /\ UNCHANGED <<expenses, isLoading, subscribed, rendered>>
  /\ UNCHANGED outsideAuth

\* faulty variant: the keys are removed in the try block, not in finally
GetRedirectResultKeysInTry(outcome) ==
  /\ ~navigated
  /\ hrr = "waiting"
  /\ toast' = IF outcome = "user" \/ ~mountSigningIn THEN "none"
              ELSE IF outcome = "none" THEN "Sign-In Incomplete"
              ELSE "Sign-In Error"
  /\ IF outcome = "error"
       THEN UNCHANGED <<lsSigningIn, lsTimestamp>>
       ELSE RemoveFlags
  /\ IF authUser = Null
       THEN isSigningIn' = FALSE
       ELSE UNCHANGED isSigningIn
  /\ redirectResultChecked' = TRUE
  /\ hrr' = "done"
  /\ UNCHANGED <<currentUser, loading, authUser, now, ticks, mountSigningIn,
                 stored, mountLs, device, provider, popupPending,
                 redirectPending, navigated, delivered, lastDelivered>>
  /\ UNCHANGED <<expenses, isLoading, subscribed, rendered>>
  /\ UNCHANGED outsideAuth

\* faulty variant: the finally block leaves isSigningIn to the callback
GetRedirectResultNoReset(outcome) ==
  /\ ~navigated
  /\ hrr = "waiting"
  /\ toast' = IF outcome = "user" \/ ~mountSigningIn THEN "none"
              ELSE IF outcome = "none" THEN "Sign-In Incomplete"
              ELSE "Sign-In Error"
  /\ RemoveFlags
  /\ redirectResultChecked' = TRUE
  /\ hrr' = "done"
  /\ UNCHANGED <<currentUser, loading, isSigningIn, authUser, now, ticks,
                 mountSigningIn, stored, mountLs, device, provider,
                 popupPending, redirectPending, navigated, delivered,
                 lastDelivered>>
  /\ UNCHANGED <<expenses, isLoading, subscribed, rendered>>
  /\ UNCHANGED outsideAuth

\* await getRedirectResult(auth) settles with a user, with null or with an
\* error; then the finally block
GetRedirectResult(outcome) ==
  /\ ~navigated
  /\ hrr = "waiting"
  /\ toast' = IF outcome = "user" \/ ~mountSigningIn THEN "none"
              ELSE IF outcome = "none" THEN "Sign-In Incomplete"
              ELSE "Sign-In Error"
  /\ RemoveFlags
  /\ IF authUser = Null
       THEN isSigningIn' = FALSE
       ELSE UNCHANGED isSigningIn
  /\ redirectResultChecked' = TRUE
  /\ hrr' = "done"
  /\ UNCHANGED <<currentUser, loading, authUser, now, ticks, mountSigningIn, stored, mountLs,
                 device, provider, popupPending, redirectPending, navigated,
                 delivered, lastDelivered>>
  /\ UNCHANGED <<expenses, isLoading, subscribed, rendered>>
  /\ UNCHANGED outsideAuth

\* signInWithGoogle() of the provider with the redirect branch, up to its await
signInWithGoogle ==
  /\ ~navigated
  /\ provider = "redirect"
  /\ IF currentUser # Null
       THEN /\ toast' = "none"
            /\ UNCHANGED <<isSigningIn, lsSigningIn, lsTimestamp, popupPending,
                           redirectPending>>
       ELSE IF isSigningIn
         THEN /\ toast' = "Sign-In In Progress"
              /\ UNCHANGED <<isSigningIn, lsSigningIn, lsTimestamp,
                             popupPending, redirectPending>>
         ELSE /\ isSigningIn' = TRUE
              /\ toast' = "none"
              /\ IF mobile(device)
                   THEN /\ lsSigningIn' = "true"
                        /\ lsTimestamp' = now
                        /\ redirectPending' = redirectPending + 1
                        /\ UNCHANGED popupPending
                   ELSE /\ popupPending' = popupPending + 1
                        /\ UNCHANGED <<lsSigningIn, lsTimestamp, redirectPending>>
  /\ UNCHANGED <<currentUser, loading, authUser, now, ticks,
                 redirectResultChecked, hrr, mountSigningIn, stored, mountLs, device, provider,
                 navigated, delivered, lastDelivered>>
  /\ UNCHANGED <<expenses, isLoading, subscribed, rendered>>
  /\ UNCHANGED outsideAuth

\* signInWithGoogle() of the popup-only provider, up to its await
signInWithGooglePopupOnly ==
  /\ provider = "popup"
  /\ IF currentUser # Null
       THEN /\ toast' = "none"
            /\ UNCHANGED <<isSigningIn, popupPending>>
       ELSE IF isSigningIn
         THEN /\ toast' = "Sign-In In Progress"
              /\ UNCHANGED <<isSigningIn, popupPending>>
         ELSE /\ isSigningIn' = TRUE
              /\ toast' = "none"
              /\ popupPending' = popupPending + 1
  /\ UNCHANGED <<currentUser, loading, authUser, lsSigningIn, lsTimestamp, now,
                 ticks, redirectResultChecked, hrr, mountSigningIn, stored, mountLs, device,
                 provider, redirectPending, navigated, delivered, lastDelivered>>
  /\ UNCHANGED <<expenses, isLoading, subscribed, rendered>>
  /\ UNCHANGED outsideAuth

\* await signInWithPopup resolves: the SDK signed user in, then the toast
PopupResolves(user) ==
  /\ ~navigated
  /\ popupPending > 0
  /\ popupPending' = popupPending - 1
  /\ OnAuthStateChanged(user)
  /\ toast' = "Sign-In Successful!"
  /\ UNCHANGED <<now, ticks, redirectResultChecked, hrr, mountSigningIn, stored, mountLs, device,
                 provider, redirectPending, navigated>>
  /\ UNCHANGED outsideAuth

\* the toast of the popup's catch block
PopupErrorToast(code) ==
  IF code \in {"auth/popup-closed-by-user", "auth/cancelled-popup-request"}
    THEN "Sign-In Cancelled"
  ELSE IF code = "auth/popup-blocked" THEN "Popup Blocked"
  ELSE IF code = "auth/unauthorized-domain"
    THEN IF provider = "redirect" THEN "Domain Not Authorized" ELSE "Sign-In Error"
  ELSE "Sign-In Failed"

\* faulty variant: the catch block does not reset isSigningIn
PopupRejectsKeepFlag(code) ==
  /\ ~navigated
  /\ popupPending > 0
  /\ popupPending' = popupPending - 1
  /\ toast' = PopupErrorToast(code)
  /\ UNCHANGED <<currentUser, loading, isSigningIn, authUser, lsSigningIn,
                 lsTimestamp, now, ticks, redirectResultChecked, hrr,
                 mountSigningIn, stored, mountLs, device, provider, redirectPending, navigated,
                 delivered, lastDelivered>>
  /\ UNCHANGED <<expenses, isLoading, subscribed, rendered>>
  /\ UNCHANGED outsideAuth

\* await signInWithPopup rejects with code: the catch block
PopupRejects(code) ==
  /\ ~navigated
  /\ popupPending > 0
  /\ popupPending' = popupPending - 1
  /\ isSigningIn' = FALSE
  /\ toast' = PopupErrorToast(code)
  /\ UNCHANGED <<currentUser, loading, authUser, lsSigningIn, lsTimestamp, now,
                 ticks, redirectResultChecked, hrr, mountSigningIn, stored, mountLs, device,
                 provider, redirectPending, navigated, delivered, lastDelivered>>
  /\ UNCHANGED <<expenses, isLoading, subscribed, rendered>>
  /\ UNCHANGED outsideAuth

\* await signInWithRedirect: the browser leaves the page
RedirectNavigates ==
  /\ ~navigated
  /\ redirectPending > 0
  /\ redirectPending' = redirectPending - 1
  /\ navigated' = TRUE
  /\ toast' = "none"
  /\ UNCHANGED <<currentUser, loading, isSigningIn, authUser, lsSigningIn,
                 lsTimestamp, now, ticks, redirectResultChecked, hrr,
                 mountSigningIn, stored, mountLs, device, provider, popupPending, delivered,
                 lastDelivered>>
  /\ UNCHANGED <<expenses, isLoading, subscribed, rendered>>
  /\ UNCHANGED outsideAuth

\* await signInWithRedirect rejects: the catch block
RedirectRejects ==
  /\ ~navigated
  /\ redirectPending > 0
  /\ redirectPending' = redirectPending - 1
  /\ RemoveFlags
  /\ isSigningIn' = FALSE
  /\ toast' = "Sign-In Failed"
  /\ UNCHANGED <<currentUser, loading, authUser, now, ticks,
                 redirectResultChecked, hrr, mountSigningIn, stored, mountLs, device, provider,
                 popupPending, navigated, delivered, lastDelivered>>
  /\ UNCHANGED <<expenses, isLoading, subscribed, rendered>>
  /\ UNCHANGED outsideAuth

\* signOutUser(); ok: signOut(auth) resolves
signOutUser(ok) ==
  /\ ~navigated
  /\ IF ok
       THEN /\ toast' = "Signed Out"
            /\ IF authUser # Null
                 THEN OnAuthStateChanged(Null)
                 ELSE /\ UNCHANGED <<currentUser, loading, isSigningIn, authUser,
                                     lsSigningIn, lsTimestamp, delivered,
                                     lastDelivered>>
                      /\ UNCHANGED <<expenses, isLoading, subscribed, rendered>>
       ELSE /\ toast' = "Sign-Out Error"
            /\ UNCHANGED <<currentUser, loading, isSigningIn, authUser,
                           lsSigningIn, lsTimestamp, delivered, lastDelivered>>
            /\ UNCHANGED <<expenses, isLoading, subscribed, rendered>>
  /\ UNCHANGED <<now, ticks, redirectResultChecked, hrr, mountSigningIn, stored, mountLs, device,
                 provider, popupPending, redirectPending, navigated>>
  /\ UNCHANGED outsideAuth

\* time passes
Tick ==
  /\ ~navigated
  /\ ticks < MaxTicks
  /\ ticks' = ticks + 1
  /\ now' = now + TickMs
  /\ UNCHANGED <<currentUser, loading, isSigningIn, authUser, lsSigningIn,
                 lsTimestamp, redirectResultChecked, hrr, mountSigningIn, stored, mountLs, device,
                 provider, popupPending, redirectPending, navigated, delivered,
                 lastDelivered, toast>>
  /\ UNCHANGED <<expenses, isLoading, subscribed, rendered>>
  /\ UNCHANGED outsideAuth

(***************************************************************************)
(* use-expenses.ts: the operations                                         *)
(***************************************************************************)
\* onAuthStateChanged delivers user; the hook's effect re-runs when it changed
AuthChange(user) ==
  /\ user # currentUser
  /\ OnAuthStateChanged(user)
  /\ toast' = "none"
  /\ UNCHANGED <<now, ticks, redirectResultChecked, hrr, mountSigningIn, stored, mountLs, device,
                 provider, popupPending, redirectPending, navigated>>
  /\ UNCHANGED outsideAuth

\* onSnapshot's next callback
SnapshotDelivery ==
  /\ subscribed # Null
  /\ expenses' = QueryResult(subscribed)
  /\ isLoading' = FALSE
  /\ toast' = "none"
  /\ UNCHANGED <<currentUser, subscribed, db, storage, nextDoc, nextUrl, job>>
  /\ UNCHANGED outsideHook

\* onSnapshot's error callback (the listener ends)
SnapshotError ==
  /\ subscribed # Null
  /\ isLoading' = FALSE
  /\ subscribed' = Null
  /\ toast' = "Error Loading Expenses"
  /\ UNCHANGED <<currentUser, expenses, db, storage, nextDoc, nextUrl, job>>
  /\ UNCHANGED outsideHook

\* form submissions without attachments that differ in the reimbursed box only
PlainInputs ==
  { [date |-> 1, provider |-> "clinic", patient |-> "ann", cost |-> 10,
     dateOfPayment |-> NullDate, isReimbursedInput |-> r,
     receiptImageFile |-> FALSE, billImageFile |-> FALSE,
     receiptImageUri |-> NoUrl, billImageUri |-> NoUrl] :
    r \in ReimbursedInputs }

\* form submissions that differ in their attachments only
FileInputs ==
  { [date |-> 1, provider |-> "clinic", patient |-> "ann", cost |-> 10,
     dateOfPayment |-> NullDate, isReimbursedInput |-> "false",
     receiptImageFile |-> rf, billImageFile |-> bf,
     receiptImageUri |-> NoUrl, billImageUri |-> NoUrl] :
    rf \in BOOLEAN, bf \in BOOLEAN }

\* the edit form resubmits the URIs of the expense it shows, each dropped when a
\* new file replaces it (ExpenseForm.tsx onFormSubmit)
KeptUris(id, inputs) ==
  { [d EXCEPT
       !.receiptImageUri = IF ~d.receiptImageFile /\ Found(id)
                             THEN Find(id).receiptImageUri ELSE NoUrl,
       !.billImageUri = IF ~d.billImageFile /\ Found(id)
                          THEN Find(id).billImageUri ELSE NoUrl] :
    d \in inputs }

\* files a submission uploads
FileCount(data) ==
  (IF data.receiptImageFile THEN 1 ELSE 0) + (IF data.billImageFile THEN 1 ELSE 0)

\* faulty variant: the bill branch is skipped
AfterReceiptSkipBill(j) == "write"

\* where a call continues once the receipt branch is over
AfterReceipt(j) ==
  IF j.data.billImageFile
    THEN IF j.op = "update" /\ j.curBill # NoUrl THEN "delOldBill" ELSE "uploadBill"
    ELSE "write"

\* where an add / update call starts after setIsLoading(true)
FirstStep(j) ==
  IF j.data.receiptImageFile
    THEN IF j.op = "update" /\ j.curReceipt # NoUrl
           THEN "delOldReceipt" ELSE "uploadReceipt"
    ELSE AfterReceipt(j)

\* faulty variant: addExpense without its guard on currentUser
addExpenseNoGuard(data) ==
  /\ job.op = "none"
  /\ isLoading' = TRUE
  /\ job' = [NoJob EXCEPT !.op = "add", !.uid = currentUser,
               !.data = data,
               !.pc = FirstStep([NoJob EXCEPT !.op = "add", !.data = data])]
  /\ toast' = "none"
  /\ UNCHANGED <<currentUser, expenses, subscribed, db, storage,
                 nextDoc, nextUrl>>

\* addExpense(data): the guard, setIsLoading(true), up to the first await
addExpense(data) ==
  IF currentUser = Null
    THEN /\ toast' = "Not Authenticated"
         /\ UNCHANGED <<currentUser, expenses, isLoading, subscribed, db,
                        storage, nextDoc, nextUrl, job>>
    ELSE /\ job.op = "none"
         /\ isLoading' = TRUE
         /\ job' = [NoJob EXCEPT !.op = "add", !.uid = currentUser,
                      !.data = data,
                      !.pc = FirstStep([NoJob EXCEPT !.op = "add", !.data = data])]
         /\ toast' = "none"
         /\ UNCHANGED <<currentUser, expenses, subscribed, db, storage,
                        nextDoc, nextUrl>>

\* updateExpense(id, data): the guard, setIsLoading(true), expenses.find
updateExpense(id, data) ==
  IF currentUser = Null
    THEN /\ toast' = "Not Authenticated"
         /\ UNCHANGED <<currentUser, expenses, isLoading, subscribed, db,
                        storage, nextDoc, nextUrl, job>>
    ELSE LET j == [NoJob EXCEPT !.op = "update", !.uid = currentUser,
                     !.id = id, !.data = data,
                     !.receiptUrl = data.receiptImageUri,
                     !.billUrl = data.billImageUri,
                     !.found = Found(id),
                     !.curReceipt = IF Found(id) THEN Find(id).receiptImageUri ELSE NoUrl,
                     !.curBill = IF Found(id) THEN Find(id).billImageUri ELSE NoUrl,
                     !.curReimbursed = IF Found(id) THEN Find(id).isReimbursed ELSE FALSE]
         IN /\ job.op = "none"
            /\ isLoading' = TRUE
            /\ job' = [j EXCEPT !.pc = FirstStep(j)]
            /\ toast' = "none"
            /\ UNCHANGED <<currentUser, expenses, subscribed, db, storage,
                           nextDoc, nextUrl>>

\* deleteExpense(id): the guard, setIsLoading(true), expenses.find
deleteExpense(id) ==
  IF currentUser = Null
    THEN /\ toast' = "Not Authenticated"
         /\ UNCHANGED <<currentUser, expenses, isLoading, subscribed, db,
                        storage, nextDoc, nextUrl, job>>
    ELSE LET j == [NoJob EXCEPT !.op = "delete", !.uid = currentUser, !.id = id,
                     !.found = Found(id),
                     !.curReceipt = IF Found(id) THEN Find(id).receiptImageUri ELSE NoUrl,
                     !.curBill = IF Found(id) THEN Find(id).billImageUri ELSE NoUrl]
         IN /\ job.op = "none"
            /\ isLoading' = TRUE
            /\ job' = [j EXCEPT !.pc = IF j.curReceipt # NoUrl THEN "delReceipt"
                                       ELSE IF j.curBill # NoUrl THEN "delBill"
                                       ELSE "write"]
            /\ toast' = "none"
            /\ UNCHANGED <<currentUser, expenses, subscribed, db, storage,
                           nextDoc, nextUrl>>

\* await deleteObject(old image): a failure is caught and only logged
DeleteObject(ok) ==
  /\ job.pc \in {"delOldReceipt", "delOldBill", "delReceipt", "delBill"}
  /\ storage' = IF ok
                  THEN storage \ {IF job.pc \in {"delOldReceipt", "delReceipt"}
                                    THEN job.curReceipt ELSE job.curBill}
                  ELSE storage
  /\ job' = [job EXCEPT !.pc =
               CASE job.pc = "delOldReceipt" -> "uploadReceipt"
                 [] job.pc = "delOldBill" -> "uploadBill"
                 [] job.pc = "delReceipt" ->
                      IF job.curBill # NoUrl THEN "delBill" ELSE "write"
                 [] OTHER -> "write"]
  /\ toast' = "none"
  /\ UNCHANGED <<currentUser, expenses, isLoading, subscribed, db, nextDoc, nextUrl>>
  /\ UNCHANGED outsideHook

\* await uploadBytes(ref, file): the object exists under a fresh uuid name
UploadBytes ==
  /\ job.pc \in {"uploadReceipt", "uploadBill"}
  /\ nextUrl' = nextUrl + 1
  /\ storage' = storage \cup {nextUrl + 1}
  /\ job' = [job EXCEPT !.pending = nextUrl + 1,
               !.pc = IF job.pc = "uploadReceipt" THEN "urlReceipt" ELSE "urlBill"]
  /\ toast' = "none"
  /\ UNCHANGED <<currentUser, expenses, isLoading, subscribed, db, nextDoc>>
  /\ UNCHANGED outsideHook

\* receiptImageUrl = await getDownloadURL(ref), and the bill's
GetDownloadURL ==
  /\ job.pc \in {"urlReceipt", "urlBill"}
  /\ job' = IF job.pc = "urlReceipt"
              THEN [job EXCEPT !.receiptUrl = job.pending, !.pending = NoUrl,
                      !.pc = AfterReceipt(job)]
              ELSE [job EXCEPT !.billUrl = job.pending, !.pending = NoUrl,
                      !.pc = "write"]
  /\ toast' = "none"
  /\ UNCHANGED <<currentUser, expenses, isLoading, subscribed, db, storage,
                 nextDoc, nextUrl>>
  /\ UNCHANGED outsideHook

\* the document addExpense builds (newExpenseData)
NewExpenseData(j, createdAt) ==
  [date |-> j.data.date,
   dateOfPayment |-> IF j.data.dateOfPayment \in Dates
                       THEN j.data.dateOfPayment ELSE NullDate,
   provider |-> j.data.provider,
   patient |-> j.data.patient,
   cost |-> j.data.cost,
   isReimbursed |-> Coalesce(j.data.isReimbursedInput, FALSE),
   receiptImageUri |-> j.receiptUrl,
   billImageUri |-> j.billUrl,
   userId |-> j.uid,
   createdAt |-> createdAt]

\* await addDoc(collection(db, 'expenses'), newExpenseData)
AddDoc ==
  /\ job.op = "add" /\ job.pc = "write"
  /\ nextDoc' = nextDoc + 1
  /\ db' = db @@ ((nextDoc + 1) :> NewExpenseData(job, nextDoc + 1))
  /\ job' = [job EXCEPT !.pc = "written"]
  /\ toast' = "none"
  /\ UNCHANGED <<currentUser, expenses, isLoading, subscribed, storage, nextUrl>>
  /\ UNCHANGED outsideHook

\* faulty variant: the update writes the caller's uid into userId
UpdatedDocTakesOwner(old, j) ==
  [old EXCEPT
     !.date = j.data.date,
     !.provider = j.data.provider,
     !.patient = j.data.patient,
     !.cost = j.data.cost,
     !.isReimbursed = Coalesce(j.data.isReimbursedInput, j.curReimbursed),
     !.receiptImageUri = j.receiptUrl,
     !.billImageUri = j.billUrl,
     !.dateOfPayment = IF j.data.dateOfPayment \in Dates THEN j.data.dateOfPayment
                       ELSE IF j.data.dateOfPayment = NullDate THEN NullDate
                       ELSE old.dateOfPayment,
     !.userId = j.uid]

\* faulty variant: an undefined dateOfPayment clears the stored date
UpdatedDocClearsUndefined(old, j) ==
  [old EXCEPT
     !.date = j.data.date,
     !.provider = j.data.provider,
     !.patient = j.data.patient,
     !.cost = j.data.cost,
     !.isReimbursed = Coalesce(j.data.isReimbursedInput, j.curReimbursed),
     !.receiptImageUri = j.receiptUrl,
     !.billImageUri = j.billUrl,
     !.dateOfPayment = IF j.data.dateOfPayment \in Dates THEN j.data.dateOfPayment
                       ELSE NullDate]

\* updatedFields applied to the stored document old
UpdatedDoc(old, j) ==
  [old EXCEPT
     !.date = j.data.date,
     !.provider = j.data.provider,
     !.patient = j.data.patient,
     !.cost = j.data.cost,
     !.isReimbursed = Coalesce(j.data.isReimbursedInput, j.curReimbursed),
     !.receiptImageUri = j.receiptUrl,
     !.billImageUri = j.billUrl,
     !.dateOfPayment = IF j.data.dateOfPayment \in Dates THEN j.data.dateOfPayment
                       ELSE IF j.data.dateOfPayment = NullDate THEN NullDate
                       ELSE old.dateOfPayment]

\* await updateDoc(expenseRef, updatedFields): the document must exist
UpdateDoc ==
  /\ job.op = "update" /\ job.pc = "write"
  /\ job.id \in DOMAIN db
  /\ db' = [db EXCEPT ![job.id] = UpdatedDoc(db[job.id], job)]
  /\ job' = [job EXCEPT !.pc = "written"]
  /\ toast' = "none"
  /\ UNCHANGED <<currentUser, expenses, isLoading, subscribed, storage,
                 nextDoc, nextUrl>>
  /\ UNCHANGED outsideHook

\* await deleteDoc(expenseRef)
DeleteDoc ==
  /\ job.op = "delete" /\ job.pc = "write"
  /\ db' = [i \in DOMAIN db \ {job.id} |-> db[i]]
  /\ job' = [job EXCEPT !.pc = "written"]
  /\ toast' = "none"
  /\ UNCHANGED <<currentUser, expenses, isLoading, subscribed, storage,
                 nextDoc, nextUrl>>
  /\ UNCHANGED outsideHook

\* the write resolved: the success toast, then finally setIsLoading(false)
Finish ==
  /\ job.pc = "written"
  /\ toast' = CASE job.op = "add" -> "Expense Added"
                [] job.op = "update" -> "Expense Updated"
                [] OTHER -> "none"
  /\ isLoading' = FALSE
  /\ job' = NoJob
  /\ UNCHANGED <<currentUser, expenses, subscribed, db, storage, nextDoc, nextUrl>>
  /\ UNCHANGED outsideHook

\* an awaited upload, URL fetch or write rejects: catch, then finally
Fail ==
  /\ job.pc \in {"uploadReceipt", "urlReceipt", "uploadBill", "urlBill", "write"}
  /\ toast' = CASE job.op = "add" -> "Error Adding Expense"
                [] job.op = "update" -> "Error Updating Expense"
                [] OTHER -> "Error Deleting Expense"
  /\ isLoading' = FALSE
  /\ job' = NoJob
  /\ UNCHANGED <<currentUser, expenses, subscribed, db, storage, nextDoc, nextUrl>>
  /\ UNCHANGED outsideHook

\* toggleReimbursement(id); ok: updateDoc resolves (the document must exist)
toggleReimbursement(id, ok) ==
  IF currentUser = Null \/ ~Found(id)
    THEN /\ toast' = "none"
         /\ UNCHANGED <<currentUser, expenses, isLoading, subscribed, db,
                        storage, nextDoc, nextUrl, job>>
    ELSE IF ok /\ id \in DOMAIN db
      THEN /\ db' = [db EXCEPT ![id].isReimbursed = ~Find(id).isReimbursed]
           /\ toast' = "none"
           /\ UNCHANGED <<currentUser, expenses, isLoading, subscribed,
                          storage, nextDoc, nextUrl, job>>
      ELSE /\ toast' = "Update Error"
           /\ UNCHANGED <<currentUser, expenses, isLoading, subscribed, db,
                          storage, nextDoc, nextUrl, job>>

\* faulty variant: the filter on isReimbursed is dropped
ReimbursedAll(list) == list

\* const totalReimbursed = expenses.filter(exp => exp.isReimbursed)
Reimbursed(list) == SelectSeq(list, LAMBDA exp : exp.isReimbursed)

RECURSIVE SumCost(_)
\* list.reduce((sum, exp) => sum + exp.cost, 0)
SumCost(list) ==
  IF list = <<>> THEN 0
  ELSE SumCost(SubSeq(list, 1, Len(list) - 1)) + list[Len(list)].cost

\* getDashboardSummary() over the list the hook holds
DashboardSummary(list) ==
  LET totalExpenses == SumCost(list)
      totalReimbursed == SumCost(Reimbursed(list))
      countTotal == Len(list)
      countReimbursed == Len(Reimbursed(list))
  IN [totalExpenses |-> totalExpenses,
      totalReimbursed |-> totalReimbursed,
      totalUnreimbursed |-> totalExpenses - totalReimbursed,
      countTotal |-> countTotal,
      countReimbursed |-> countReimbursed,
      countUnreimbursed |-> countTotal - countReimbursed]

\* no summary was asked for yet
NoSummary ==
  [totalExpenses |-> -1, totalReimbursed |-> -1, totalUnreimbursed |-> -1,
   countTotal |-> -1, countReimbursed |-> -1, countUnreimbursed |-> -1]

\* a component calls getDashboardSummary()
getDashboardSummary ==
  /\ summary' = DashboardSummary(expenses)
  /\ UNCHANGED <<currentUser, authVars, hookVars, formVars, rendered, toast>>

(***************************************************************************)
(* ExpenseForm.tsx                                                         *)
(***************************************************************************)
FormFields == {"date", "dateOfPayment", "provider", "patient", "cost"}

\* a Date is <<year, monthIndex, day>>; null / undefined is the empty tuple
NoDate == <<>>

\* a date string is the sequence of its parts between '-' ("" is <<"">>)
EmptyString == <<"">>

\* parseInt(part, 10): a number, or NaN
ParseInt(part) ==
  CASE part = "2024" -> [nan |-> FALSE, n |-> 2024]
    [] part = "03" -> [nan |-> FALSE, n |-> 3]
    [] part = "15" -> [nan |-> FALSE, n |-> 15]
    [] part = "16" -> [nan |-> FALSE, n |-> 16]
    [] OTHER -> [nan |-> TRUE, n |-> 0]

\* parseDateStringToLocal(dateStr); the dates used are valid calendar days, on
\* which new Date(year, month, day) does not normalise
parseDateStringToLocal(dateStr) ==
  IF dateStr # EmptyString /\ Len(dateStr) = 3
    THEN LET year == ParseInt(dateStr[1])
             month == [nan |-> ParseInt(dateStr[2]).nan,
                       n |-> ParseInt(dateStr[2]).n - 1]
             day == ParseInt(dateStr[3])
         IN IF ~year.nan /\ ~month.nan /\ ~day.nan
              THEN <<year.n, month.n, day.n>>
              ELSE NoDate
    ELSE NoDate

\* defaultValues of the add form (date: new Date())
DefaultValues ==
  [date |-> <<2026, 10, 2>>, dateOfPayment |-> NoDate, provider |-> "",
   patient |-> "", cost |-> 0, receiptImageFile |-> FALSE,
   billImageFile |-> FALSE]

\* the values form.reset(...) installs from initialData on the edit page
InitialDataValues ==
  [date |-> <<2025, 0, 10>>, dateOfPayment |-> NoDate, provider |-> "clinic",
   patient |-> "ann", cost |-> 10, receiptImageFile |-> FALSE,
   billImageFile |-> FALSE]

\* what the user types or picks in a field
UserValues ==
  [date |-> <<2025, 5, 1>>, dateOfPayment |-> <<2025, 5, 2>>, provider |-> "CVS",
   patient |-> "Bob", cost |-> 20]

\* a response of extractData (ExtractDataOutput) that supplies every field
FullExtraction ==
  [date |-> <<"2024", "03", "15">>, dateOfPayment |-> <<"2024", "03", "16">>,
   provider |-> "Dr. Smith", patient |-> "Ann", cost |-> 42]

\* responses of extractData: the full one, the empty one, and the full one with
\* one field empty, malformed or not positive
Extractions ==
  {FullExtraction,
   [date |-> EmptyString, dateOfPayment |-> EmptyString, provider |-> "",
    patient |-> "", cost |-> 0]}
  \cup {[FullExtraction EXCEPT !.date = d] :
          d \in {EmptyString, <<"2024", "03">>, <<"2024", "xx", "15">>}}
  \cup {[FullExtraction EXCEPT !.dateOfPayment = EmptyString],
        [FullExtraction EXCEPT !.provider = ""],
        [FullExtraction EXCEPT !.patient = ""]}
  \cup {[FullExtraction EXCEPT !.cost = c] : c \in {0, -5}}

NoneDirty == [f \in FormFields |-> FALSE]

\* the user edits field f (fields are disabled while an image is processed)
UserEdit(f) ==
  /\ ~(isExtractingReceipt \/ isExtractingBill)
  /\ formValues' = [formValues EXCEPT ![f] = UserValues[f]]
  /\ dirtyFields' = [dirtyFields EXCEPT ![f] = TRUE]
  /\ toast' = "none"
  /\ UNCHANGED <<editing, renderedDirty, isExtractingReceipt, isExtractingBill>>
  /\ UNCHANGED outsideForm

\* the effect on [initialData, form]: a new snapshot rebuilt the expense object
FormReset ==
  /\ editing
  /\ formValues' = InitialDataValues
  /\ dirtyFields' = NoneDirty
  /\ toast' = "none"
  /\ UNCHANGED <<editing, renderedDirty, isExtractingReceipt, isExtractingBill>>
  /\ UNCHANGED outsideForm

\* isScanWorthSkipping of processImageForAI
isScanWorthSkipping(docType) ==
  /\ dirtyFields["provider"] \/ formValues.provider # ""
  /\ dirtyFields["patient"] \/ formValues.patient # ""
  /\ dirtyFields["cost"] \/ formValues.cost > 0
  /\ dirtyFields["date"]
  /\ docType = "receipt" =>
       (dirtyFields["dateOfPayment"] \/ formValues.dateOfPayment # NoDate)

\* handleFileUpload(event, docType) up to await extractData; file: an image, an
\* image whose compression fails, a PDF, or another type
handleFileUpload(docType, file) ==
  /\ ~(isExtractingReceipt \/ isExtractingBill)
  /\ renderedDirty' = dirtyFields
  /\ IF file \in {"badImage", "other"}
       THEN /\ toast' = IF file = "other" THEN "Unsupported File Type"
                        ELSE "Image Processing Failed"
            /\ formValues' = IF docType = "receipt"
                               THEN [formValues EXCEPT !.receiptImageFile = FALSE]
                               ELSE [formValues EXCEPT !.billImageFile = FALSE]
            /\ UNCHANGED <<isExtractingReceipt, isExtractingBill>>
       ELSE /\ formValues' = IF docType = "receipt"
                               THEN [formValues EXCEPT !.receiptImageFile = TRUE]
                               ELSE [formValues EXCEPT !.billImageFile = TRUE]
            /\ IF isScanWorthSkipping(docType)
                 THEN /\ toast' = "Fields Already Populated"
                      /\ UNCHANGED <<isExtractingReceipt, isExtractingBill>>
                 ELSE /\ toast' = "none"
                      /\ isExtractingReceipt' = (docType = "receipt")
                      /\ isExtractingBill' = (docType = "bill")
  /\ UNCHANGED <<editing, dirtyFields>>
  /\ UNCHANGED outsideForm

\* faulty variant: the provider is copied whether or not the field is dirty
handleAIDataPopulationProvider(extracted, documentType, dirty) ==
  [formValues EXCEPT
     !.provider = IF extracted.provider # "" THEN extracted.provider ELSE @]

\* the values handleAIDataPopulation(extracted, documentType) leaves in the
\* form when it reads dirty as dirtyFields
handleAIDataPopulation(extracted, documentType, dirty) ==
  LET parsedDate == parseDateStringToLocal(extracted.date)
      parsedPaymentDate == parseDateStringToLocal(extracted.dateOfPayment)
  IN [formValues EXCEPT
        !.date = IF extracted.date # EmptyString /\ ~dirty["date"]
                      /\ parsedDate # NoDate
                   THEN parsedDate ELSE @,
        !.dateOfPayment = IF extracted.dateOfPayment # EmptyString
                             /\ ~dirty["dateOfPayment"]
                             /\ documentType = "Receipt"
                             /\ parsedPaymentDate # NoDate
                            THEN parsedPaymentDate ELSE @,
        !.provider = IF extracted.provider # "" /\ ~dirty["provider"]
                       THEN extracted.provider ELSE @,
        !.patient = IF extracted.patient # "" /\ ~dirty["patient"]
                      THEN extracted.patient ELSE @,
        !.cost = IF extracted.cost # 0 /\ extracted.cost > 0 /\ ~dirty["cost"]
                   THEN extracted.cost ELSE @]

\* await extractData resolves with extracted: handleAIDataPopulation, then the
\* finally block; the handler's dirtyFields is the object its render read, which
\* the form library either keeps current or has replaced since
ExtractionResolves(extracted, dirty) ==
  /\ isExtractingReceipt \/ isExtractingBill
  /\ dirty \in {dirtyFields, renderedDirty}
  /\ formValues' = handleAIDataPopulation(
                     extracted, IF isExtractingReceipt THEN "Receipt" ELSE "Bill",
                     dirty)
  /\ toast' = IF isExtractingReceipt THEN "Data Extracted from Receipt"
              ELSE "Data Extracted from Bill"
  /\ isExtractingReceipt' = FALSE
  /\ isExtractingBill' = FALSE
  /\ UNCHANGED <<editing, dirtyFields, renderedDirty>>
  /\ UNCHANGED outsideForm

\* await extractData rejects: the catch block, then finally
ExtractionRejects ==
  /\ isExtractingReceipt \/ isExtractingBill
  /\ toast' = IF isExtractingReceipt THEN "Receipt Extraction Failed"
              ELSE "Bill Extraction Failed"
  /\ isExtractingReceipt' = FALSE
  /\ isExtractingBill' = FALSE
  /\ UNCHANGED <<editing, formValues, dirtyFields, renderedDirty>>
  /\ UNCHANGED outsideForm

(***************************************************************************)
(* Initial states.                                                         *)
(***************************************************************************)
DocIds == 1..MaxDocs
\* the specification with attachments follows one document
FileDocIds == {1}

\* the hook mounted with nobody signed in and an empty collection
InitHook ==
  /\ expenses = <<>>
  /\ isLoading = FALSE
  /\ subscribed = Null
  /\ db = <<>>
  /\ storage = {}
  /\ nextDoc = 0
  /\ nextUrl = 0
  /\ job = NoJob
  /\ summary = NoSummary

\* the add form, untouched
InitFormAt(edit) ==
  /\ editing = edit
  /\ formValues = IF edit THEN InitialDataValues ELSE DefaultValues
  /\ dirtyFields = NoneDirty
  /\ renderedDirty = NoneDirty
  /\ isExtractingReceipt = FALSE
  /\ isExtractingBill = FALSE

\* the provider p mounted on device dev over what localStorage stored
InitAuthAt(p, dev, flag, timestamp) ==
  /\ currentUser = Null
  /\ loading = TRUE
  /\ authUser = Null
  /\ now = LoadTime
  /\ ticks = 0
  /\ provider = p
  /\ device = dev
  /\ isSigningIn = (p = "redirect" /\ InitialIsSigningIn(flag, timestamp, LoadTime))
  /\ mountSigningIn = isSigningIn
  /\ stored = [flag |-> flag, timestamp |-> timestamp]
  /\ lsSigningIn = IF p = "redirect" /\ ~isSigningIn THEN "absent" ELSE flag
  /\ lsTimestamp = IF p = "redirect" /\ ~isSigningIn THEN NoTimestamp ELSE timestamp
  /\ mountLs = [flag |-> lsSigningIn, timestamp |-> lsTimestamp]
  /\ redirectResultChecked = FALSE
  /\ hrr = "notRun"
  /\ popupPending = 0
  /\ redirectPending = 0
  /\ navigated = FALSE
  /\ delivered = FALSE
  /\ lastDelivered = Null
  /\ rendered = AppLayout(TRUE, Null)
  /\ toast = "none"

\* a desktop browser with nothing stored
Desktop ==
  [isMobileUA |-> FALSE, isTouchDevice |-> FALSE, screenWidth |-> SmallScreenWidth + 1]

InitExp ==
  /\ InitAuthAt("redirect", Desktop, "absent", NoTimestamp)
  /\ InitHook
  /\ InitFormAt(FALSE)

InitAuth ==
  /\ \E p \in {"redirect", "popup"}, dev \in Devices,
        flag \in {"true", "absent"}, timestamp \in StoredTimestamps :
       /\ p = "popup" => flag = "absent" /\ timestamp = NoTimestamp
       /\ InitAuthAt(p, dev, flag, timestamp)
  /\ InitHook
  /\ InitFormAt(FALSE)

\* a stored document of u1 for the summary
SummaryDoc(i, cost, reimbursed) ==
  [date |-> 1, dateOfPayment |-> NullDate, provider |-> "clinic",
   patient |-> "ann", cost |-> cost, isReimbursed |-> reimbursed,
   receiptImageUri |-> NoUrl, billImageUri |-> NoUrl, userId |-> "u1",
   createdAt |-> i]

\* costs of the summarised expenses
SummaryCosts == {0, 10, 25}

\* u1 signed in, the list delivered by a snapshot of up to MaxListLen documents
InitSummary ==
  /\ \E n \in 0..MaxListLen :
       \E cost \in [1..n -> SummaryCosts], reimbursed \in [1..n -> BOOLEAN] :
         /\ db = [i \in 1..n |-> SummaryDoc(i, cost[i], reimbursed[i])]
         /\ nextDoc = n
  /\ expenses = QueryResult("u1")
  /\ currentUser = "u1"
  /\ subscribed = "u1"
  /\ isLoading = FALSE
  /\ storage = {}
  /\ nextUrl = 0
  /\ job = NoJob
  /\ summary = NoSummary
  /\ loading = FALSE
  /\ authUser = "u1"
  /\ now = LoadTime
  /\ ticks = 0
  /\ provider = "redirect"
  /\ device = Desktop
  /\ isSigningIn = FALSE
  /\ mountSigningIn = FALSE
  /\ stored = [flag |-> "absent", timestamp |-> NoTimestamp]
  /\ mountLs = [flag |-> "absent", timestamp |-> NoTimestamp]
  /\ lsSigningIn = "absent"
  /\ lsTimestamp = NoTimestamp
  /\ redirectResultChecked = FALSE
  /\ hrr = "notRun"
  /\ popupPending = 0
  /\ redirectPending = 0
  /\ navigated = FALSE
  /\ delivered = TRUE
  /\ lastDelivered = "u1"
  /\ rendered = AppLayout(FALSE, "u1")
  /\ toast = "none"
  /\ InitFormAt(FALSE)

InitForm ==
  /\ InitAuthAt("redirect", Desktop, "absent", NoTimestamp)
  /\ InitHook
  /\ \E edit \in BOOLEAN : InitFormAt(edit)

(***************************************************************************)
(* Specifications.                                                         *)
(***************************************************************************)
\* a signed-in caller starts data's uploads only while the run's bound allows them
Uploadable(data) ==
  currentUser # Null => nextUrl + FileCount(data) <= MaxUploads

AuthChanges == \E u \in Users \cup {Null} : AuthChange(u)
SignInOut == \E u \in {"u1", Null} : AuthChange(u)
AddCalls ==
  \E d \in PlainInputs :
    /\ currentUser # Null => nextDoc < MaxDocs
    /\ addExpense(d)
    /\ UNCHANGED outsideHook
DeleteCalls == \E id \in DocIds : deleteExpense(id) /\ UNCHANGED outsideHook
ToggleCalls ==
  \E id \in DocIds, ok \in BOOLEAN :
    toggleReimbursement(id, ok) /\ UNCHANGED outsideHook
AddFileCalls ==
  \E d \in FileInputs :
    /\ currentUser # Null => nextDoc + 1 \in FileDocIds
    /\ Uploadable(d)
    /\ addExpense(d)
    /\ UNCHANGED outsideHook
UpdateFileCalls ==
  \E id \in FileDocIds : \E d \in KeptUris(id, FileInputs) :
    Uploadable(d) /\ updateExpense(id, d) /\ UNCHANGED outsideHook
DeleteFileCalls == \E id \in FileDocIds : deleteExpense(id) /\ UNCHANGED outsideHook
ToggleFileCalls ==
  \E id \in FileDocIds, ok \in BOOLEAN :
    toggleReimbursement(id, ok) /\ UNCHANGED outsideHook
DeleteObjects == \E ok \in BOOLEAN : DeleteObject(ok)

\* the hook with submissions that carry no attachment
Next ==
  \/ AuthChanges
  \/ SnapshotDelivery
  \/ SnapshotError
  \/ AddCalls
  \/ DeleteCalls
  \/ ToggleCalls
  \/ AddDoc
  \/ DeleteDoc
  \/ Finish
  \/ Fail

Spec == InitExp /\ [][Next]_vars

\* the hook with submissions that carry attachments
NextFiles ==
  \/ SignInOut
  \/ SnapshotDelivery
  \/ AddFileCalls
  \/ UpdateFileCalls
  \/ DeleteFileCalls
  \/ ToggleFileCalls
  \/ DeleteObjects
  \/ UploadBytes
  \/ GetDownloadURL
  \/ AddDoc
  \/ UpdateDoc
  \/ DeleteDoc
  \/ Finish
  \/ Fail

SpecFiles == InitExp /\ [][NextFiles]_vars

\* a new attempt is started only while the run's bound allows it
Startable ==
  (currentUser = Null /\ ~isSigningIn) => popupPending + redirectPending < MaxAttempts

SignInCalls == Startable /\ signInWithGoogle
PopupOnlySignInCalls == Startable /\ signInWithGooglePopupOnly
ExternalAuthChanges == \E u \in Users \cup {Null} : AuthStateChanges(u)
GetRedirectResults == \E outcome \in {"user", "none", "error"} : GetRedirectResult(outcome)
PopupSettles ==
  \/ \E u \in Users : PopupResolves(u)
  \/ \E code \in PopupErrors : PopupRejects(code)
RedirectSettles == RedirectNavigates \/ RedirectRejects
SignOutCalls == \E ok \in BOOLEAN : signOutUser(ok)

\* the auth wrapper
NextAuth ==
  \/ ExternalAuthChanges
  \/ HandleRedirectResult
  \/ GetRedirectResults
  \/ SignInCalls
  \/ PopupOnlySignInCalls
  \/ PopupSettles
  \/ RedirectSettles
  \/ SignOutCalls
  \/ Tick

SpecAuth == InitAuth /\ [][NextAuth]_vars

\* the auth wrapper where what was started settles: pending SDK promises
\* settle, the load event and the 500 ms timer fire; the user need not act
FairSpecAuth ==
  /\ SpecAuth
  /\ WF_vars(HandleRedirectResult)
  /\ WF_vars(GetRedirectResults)
  /\ WF_vars(PopupSettles)
  /\ WF_vars(RedirectSettles)

\* the dashboard summary over bounded lists
NextSummary == getDashboardSummary

SpecSummary == InitSummary /\ [][NextSummary]_vars

UserEdits == \E f \in FormFields : UserEdit(f)
FileUploads ==
  \E docType \in {"receipt", "bill"}, file \in {"image", "badImage", "pdf", "other"} :
    handleFileUpload(docType, file)
ExtractionResults ==
  \E extracted \in Extractions, dirty \in {dirtyFields, renderedDirty} :
    ExtractionResolves(extracted, dirty)

\* the expense form
NextForm ==
  \/ UserEdits
  \/ FormReset
  \/ FileUploads
  \/ ExtractionResults
  \/ ExtractionRejects

SpecForm == InitForm /\ [][NextForm]_vars

(***************************************************************************)
(* Claims about the expense hook.                                          *)
(***************************************************************************)
\* C1: the exposed list holds only documents of the signed-in user, and is
\* empty whenever no user is signed in.
C1_ListScopedToCurrentUser ==
  /\ \A i \in 1..Len(expenses) : expenses[i].userId = currentUser
  /\ currentUser = Null => expenses = <<>>

\* C2: addDoc creates the document only after every attached file was uploaded
\* and its URL obtained, the document's URIs are exactly those URLs, and a call
\* whose upload or URL fetch rejects writes nothing.
C2_DocumentAfterUploads ==
  [][ /\ nextDoc' # nextDoc =>
           /\ job.op = "add"
           /\ job.data.receiptImageFile <=> job.receiptUrl # NoUrl
           /\ job.data.billImageFile <=> job.billUrl # NoUrl
           /\ {job.receiptUrl, job.billUrl} \ {NoUrl} \subseteq 1..nextUrl
           /\ job.data.receiptImageFile /\ job.data.billImageFile
                => job.receiptUrl # job.billUrl
           /\ job.pending = NoUrl
           /\ db'[nextDoc'].receiptImageUri = job.receiptUrl
           /\ db'[nextDoc'].billImageUri = job.billUrl
      /\ (job.op = "add" /\ job.pc # "written" /\ job'.op = "none")
           => db' = db /\ nextDoc' = nextDoc
    ]_vars

\* C2 witness: a document written with both of its attachments' URLs
C2_Witness ==
  \E id \in DOMAIN db :
    /\ db[id].receiptImageUri # NoUrl
    /\ db[id].billImageUri # NoUrl
    /\ db[id].receiptImageUri # db[id].billImageUri

\* C7: with no user signed in the four operations upload, delete and write
\* nothing and leave isLoading and the list alone; add, update and delete
\* report "Not Authenticated".
C7_SignedOutCallsDoNothing ==
  [][ currentUser = Null =>
        /\ (AddFileCalls \/ UpdateFileCalls \/ DeleteFileCalls \/ ToggleFileCalls)
             => UNCHANGED <<storage, db, nextDoc, nextUrl, job, isLoading, expenses>>
        /\ (AddFileCalls \/ UpdateFileCalls \/ DeleteFileCalls)
             => toast' = "Not Authenticated"
    ]_vars

\* C7 witness: a signed-out call was refused while a document and its
\* attachments exist
C7_Witness ==
  /\ currentUser = Null
  /\ toast = "Not Authenticated"
  /\ storage # {}
  /\ DOMAIN db # {}

\* C9: every toggleReimbursement(id) that succeeds for a listed expense flips
\* the stored isReimbursed flag and changes nothing else.
C9_ToggleFlipsStoredFlag ==
  [][ \A id \in DocIds :
        ( /\ currentUser # Null
          /\ Found(id)
          /\ id \in DOMAIN db
          /\ toggleReimbursement(id, TRUE) )
        => db' = [db EXCEPT ![id].isReimbursed = ~db[id].isReimbursed]
    ]_vars

(***************************************************************************)
(* Claims about the dashboard summary.                                     *)
(***************************************************************************)
\* C3: for every expense list getDashboardSummary returns the sum of all costs,
\* the sum of the reimbursed costs, their difference, the list length, the
\* number reimbursed and the difference of the two; reimbursed and unreimbursed
\* partition the total amount and the total count.
C3_SummaryPartitions ==
  summary # NoSummary =>
    LET all == 1..Len(expenses)
        re == {i \in all : expenses[i].isReimbursed}
        un == all \ re
        sum[S \in SUBSET all] ==
          IF S = {} THEN 0
          ELSE LET i == CHOOSE x \in S : TRUE
               IN expenses[i].cost + sum[S \ {i}]
    IN /\ summary.totalExpenses = sum[all]
       /\ summary.totalReimbursed = sum[re]
       /\ summary.totalUnreimbursed = summary.totalExpenses - summary.totalReimbursed
       /\ summary.totalUnreimbursed = sum[un]
       /\ summary.countTotal = Len(expenses)
       /\ summary.countReimbursed = Cardinality(re)
       /\ summary.countUnreimbursed = summary.countTotal - summary.countReimbursed
       /\ summary.countUnreimbursed = Cardinality(un)

\* C3 witness: a summary of a list that mixes reimbursed and unreimbursed costs
C3_Witness ==
  /\ summary # NoSummary
  /\ summary.countReimbursed >= 1
  /\ summary.countUnreimbursed >= 2
  /\ summary.totalReimbursed > 0
  /\ summary.totalUnreimbursed > summary.totalReimbursed

C5_PopupFailureRetried ==
  [](toast = "Popup Blocked" => <>(redirectPending > 0))

\* C6: every sign-in attempt that ends in an error leaves isSigningIn false,
\* and a signInWithGoogle call made with isSigningIn false and nobody signed in
\* starts a new attempt instead of reporting "Sign-In In Progress".
C6_ErrorsDoNotBlock ==
  [][ /\ ( \/ \E code \in PopupErrors : PopupRejects(code)
           \/ RedirectRejects
           \/ GetRedirectResult("error") )
        => ~isSigningIn'
      /\ ( /\ currentUser = Null
           /\ ~isSigningIn
           /\ signInWithGoogle \/ signInWithGooglePopupOnly )
        => /\ isSigningIn'
           /\ toast' # "Sign-In In Progress"
           /\ popupPending' + redirectPending' = popupPending + redirectPending + 1
    ]_vars

\* C6 witness: reading the redirect result failed for a page that mounted
\* signing in, and isSigningIn is false again
C6_Witness ==
  /\ toast = "Sign-In Error"
  /\ mountSigningIn
  /\ ~isSigningIn
  /\ currentUser = Null

\* C8: currentUser is the user the auth-state callback last delivered (null
\* before the first delivery), and loading is true exactly before the first
\* delivery.
C8_CurrentUserIsLastDelivered ==
  /\ currentUser = lastDelivered
  /\ ~delivered => currentUser = Null
  /\ loading <=> ~delivered

\* C8 witness: null was delivered after a user had been
C8_Witness ==
  /\ delivered
  /\ lastDelivered = Null
  /\ toast = "Signed Out"
  /\ ~loading

(***************************************************************************)
(* Claims about the expense form.                                          *)
(***************************************************************************)
\* C10: when an extraction resolves, a field among date, provider, patient and
\* cost that is dirty keeps its value, and a field that changes was not dirty
\* and takes the value the response supplies (a cost only when > 0).
C10_EditedFieldsKept ==
  [][ ( /\ isExtractingReceipt \/ isExtractingBill
        /\ toast' \in {"Data Extracted from Receipt", "Data Extracted from Bill"} ) =>
      \A extracted \in Extractions, dirty \in {dirtyFields, renderedDirty} :
        formValues' = handleAIDataPopulation(
                        extracted,
                        IF isExtractingReceipt THEN "Receipt" ELSE "Bill", dirty)
        => /\ \A f \in {"date", "provider", "patient", "cost"} :
                /\ dirtyFields[f] => formValues'[f] = formValues[f]
                /\ formValues'[f] # formValues[f] => ~dirtyFields[f]
           /\ formValues'.date # formValues.date
                => /\ extracted.date = <<"2024", "03", "15">>
                   /\ formValues'.date = <<2024, 2, 15>>
           /\ formValues'.provider # formValues.provider
                => /\ extracted.provider # ""
                   /\ formValues'.provider = extracted.provider
           /\ formValues'.patient # formValues.patient
                => /\ extracted.patient # ""
                   /\ formValues'.patient = extracted.patient
           /\ formValues'.cost # formValues.cost
                => /\ extracted.cost > 0
                   /\ formValues'.cost = extracted.cost
    ]_vars

\* C10 witness: an extraction filled the date and the cost next to a provider
\* the user had typed
C10_Witness ==
  /\ toast = "Data Extracted from Receipt"
  /\ dirtyFields["provider"]
  /\ formValues.provider = "CVS"
  /\ formValues.cost = 42
  /\ formValues.date = <<2024, 2, 15>>

(***************************************************************************)
(* Claims about the application layout.                                    *)
(***************************************************************************)
\* C11: the layout shows the page only while loading is false and a user is
\* signed in; it shows the spinner while loading and the sign-in prompt when
\* loading is over and nobody is signed in.
C11_ChildrenOnlyWhenSignedIn ==
  /\ rendered = "children" <=> (~loading /\ currentUser # Null)
  /\ rendered = "spinner" <=> loading
  /\ rendered = "prompt" <=> (~loading /\ currentUser = Null)

\* C11 witness: the prompt replaced the page after a sign-out
C11_Witness ==
  /\ rendered = "prompt"
  /\ toast = "Signed Out"
  /\ delivered

(***************************************************************************)
(* Further claims about the auth wrapper.                                  *)
(***************************************************************************)
\* C12: at most one signInWithPopup or signInWithRedirect call is pending at
\* any time.
C12_OneAttemptInFlight ==
  popupPending + redirectPending <= 1

\* C13: the provider with the redirect branch mounts with isSigningIn true
\* exactly when the stored flag is 'true' and the stored timestamp is less than
\* 10 minutes old; otherwise it mounts with isSigningIn false and both keys
\* removed.
C13_InitialSigningIn ==
  provider = "redirect" =>
    LET fresh == /\ stored.flag = "true"
                 /\ stored.timestamp >= 0
                 /\ LoadTime - stored.timestamp < 10 * 60 * 1000
    IN /\ mountSigningIn <=> fresh
       /\ fresh => mountLs = stored
       /\ ~fresh => mountLs = [flag |-> "absent", timestamp |-> NoTimestamp]

\* C13 witness: a flag stored exactly 10 minutes before the mount was dropped
C13_Witness ==
  /\ provider = "redirect"
  /\ stored.flag = "true"
  /\ LoadTime - stored.timestamp = SignInTimeoutMs
  /\ ~mountSigningIn
  /\ hrr = "done"

\* both localStorage keys are absent
KeysAbsent ==
  /\ lsSigningIn = "absent"
  /\ lsTimestamp = NoTimestamp

\* C14: the step in which handleRedirectResult finishes leaves both stored keys
\* absent and the redirect result marked checked, and so does, for the keys,
\* every auth-state callback that reports a user.
C14_KeysClearedWhenFinished ==
  [][/\ (hrr # "done" /\ hrr' = "done") => (KeysAbsent' /\ redirectResultChecked')
     /\ (provider = "redirect" /\ \E user \in Users : OnAuthStateChanged(user))
          => KeysAbsent']_vars

\* C14 witness: getRedirectResult threw on a page that loaded mid sign-in
C14_Witness ==
  /\ hrr = "done"
  /\ mountSigningIn
  /\ toast = "Sign-In Error"
  /\ KeysAbsent
  /\ redirectResultChecked

\* C15: on a page that mounted in the middle of a redirect sign-in, isSigningIn
\* eventually becomes false, whether getRedirectResult yields a user, yields
\* nothing or throws.
C15_SigningInEventuallyFalse ==
  mountSigningIn => <>(~isSigningIn)

\* C15 witness: getRedirectResult yielded nothing and isSigningIn was reset
C15_Witness ==
  /\ mountSigningIn
  /\ hrr = "done"
  /\ toast = "Sign-In Incomplete"
  /\ ~isSigningIn
  /\ currentUser = Null

(***************************************************************************)
(* use-expenses.ts: updates of stored documents.                           *)
(***************************************************************************)
\* the documents the updates are followed on: the first of u1, the second of u2
UpdateDocIds == {1, 2}

\* a document stored before the page was opened
StoredDoc(id, dateOfPayment) ==
  [date |-> 1, dateOfPayment |-> dateOfPayment, provider |-> "clinic",
   patient |-> "ann", cost |-> 10, isReimbursed |-> FALSE,
   receiptImageUri |-> NoUrl, billImageUri |-> NoUrl,
   userId |-> IF id = 1 THEN "u1" ELSE "u2", createdAt |-> id]

\* edit-form submissions without attachments: dateOfPayment is a Date, null or
\* undefined
UpdateInputs ==
  { [date |-> 1, provider |-> "clinic", patient |-> "ann", cost |-> 20,
     dateOfPayment |-> p, isReimbursedInput |-> "undefined",
     receiptImageFile |-> FALSE, billImageFile |-> FALSE,
     receiptImageUri |-> NoUrl, billImageUri |-> NoUrl] :
    p \in Dates \cup {NullDate, UndefinedDate} }

\* the page opens over a collection that holds both documents
InitUpdate ==
  /\ InitAuthAt("redirect", Desktop, "absent", NoTimestamp)
  /\ InitFormAt(FALSE)
  /\ expenses = <<>>
  /\ isLoading = FALSE
  /\ subscribed = Null
  /\ \E paid \in [UpdateDocIds -> Dates \cup {NullDate}] :
       db = [id \in UpdateDocIds |-> StoredDoc(id, paid[id])]
  /\ storage = {}
  /\ nextDoc = 2
  /\ nextUrl = 0
  /\ job = NoJob
  /\ summary = NoSummary

UpdateCalls ==
  \E id \in UpdateDocIds, d \in UpdateInputs :
    updateExpense(id, d) /\ UNCHANGED outsideHook
ToggleUpdateCalls ==
  \E id \in UpdateDocIds, ok \in BOOLEAN :
    toggleReimbursement(id, ok) /\ UNCHANGED outsideHook

\* the hook with updates and toggles only
NextUpdate ==
  \/ AuthChanges
  \/ SnapshotDelivery
  \/ UpdateCalls
  \/ ToggleUpdateCalls
  \/ UpdateDoc
  \/ Finish
  \/ Fail

SpecUpdate == InitUpdate /\ [][NextUpdate]_vars

(***************************************************************************)
(* Claims about updates.                                                   *)
(***************************************************************************)
\* C16: a step of updateExpense or toggleReimbursement that writes a document
\* leaves the userId and the createdAt of every stored document as they were.
C16_OwnerAndCreationKept ==
  [][db' # db =>
       /\ DOMAIN db' = DOMAIN db
       /\ \A id \in DOMAIN db :
            /\ db'[id].userId = db[id].userId
            /\ db'[id].createdAt = db[id].createdAt]_vars

\* C16 witness: u2 has updated the document of u1 after it had been toggled
C16_Witness ==
  /\ currentUser = "u2"
  /\ toast = "Expense Updated"
  /\ db[1].cost = 20
  /\ db[1].isReimbursed
  /\ db[1].userId = "u1"
  /\ db[1].createdAt = 1

\* C17: the write of updateExpense stores data.dateOfPayment when it is a Date,
\* stores null when it is null, and keeps the stored date when it is undefined.
C17_DateOfPaymentThreeWays ==
  [][(job.op = "update" /\ job.pc = "write" /\ job'.pc = "written") =>
       LET given == job.data.dateOfPayment
           before == db[job.id].dateOfPayment
           after == db'[job.id].dateOfPayment
       IN /\ given \in Dates => after = given
          /\ given = NullDate => after = NullDate
          /\ given = UndefinedDate => after = before]_vars

\* C17 witness: an update without dateOfPayment has left a stored date in place
C17_Witness ==
  /\ job.op = "update"
  /\ job.pc = "written"
  /\ job.data.dateOfPayment = UndefinedDate
  /\ db[job.id].dateOfPayment \in Dates
  /\ db[job.id].cost = 20
====
